---- MODULE Spec2Model ----
(***************************************************************************)
(* Model of the print store's payment-notification and analytics delivery  *)
(* pipeline:                                                               *)
(*   - the Stripe webhook route handlers (app/api/webhooks: POST),         *)
(*   - ServerAnalytics.sendEvent and trackServerPurchase/trackServerRefund,*)
(*   - the browser hook useAnalytics (sendEvent, processEventQueue,        *)
(*     online/offline handling, retry timers).                             *)
(* The server runtime and the browser runtime share no state; a behaviour  *)
(* of the model follows one of them, chosen by `runtime` in Init.          *)
(***************************************************************************)
EXTENDS Integers, Sequences, FiniteSets, TLC

(***************************************************************************)
(* Optional values: a field that may be null/undefined is <<>> when absent *)
(* and <<v>> when present.                                                 *)
(***************************************************************************)
Absent == <<>>

Some(v) == <<v>>

\* JavaScript truthiness of an optional number (null, undefined and 0 are falsy)
Truthy(x) == x # Absent /\ x[1] # 0

(***************************************************************************)
(* Configuration                                                           *)
(***************************************************************************)
\* getServerAnalyticsConfig: enableRetries, maxRetries, timeout
EnableRetries == TRUE

MaxRetries == 3

Timeout == 5000

\* useAnalytics defaults: enableOfflineQueue, retryAttempts
EnableOfflineQueue == TRUE

RetryAttempts == 3

\* queueMaxSize as configured for the hook (UseAnalyticsConfig.queueMaxSize)
QueueMaxSize == 2

\* number of application-level sendEvent calls in a browser run
MaxTracked == 3

(***************************************************************************)
(* Notifications                                                           *)
(***************************************************************************)
\* the two route handlers named POST
Handlers == {"webhook", "webhookAnalytics"}

\* the Stripe-Signature header as constructEvent sees it
SigKinds == {"valid", "missing", "malformed", "expired", "mismatched"}

EventIds == {"evt_paid", "evt_unpaid", "evt_noamount", "evt_nocurrency",
             "evt_refund", "evt_pi_succeeded", "evt_invoice_failed",
             "evt_sub_updated", "evt_test"}

\* the events simulateWebhookEvents sends, one of each type it lists
SimulatedEvents == {"evt_paid", "evt_pi_succeeded", "evt_pi_failed",
                    "evt_invoice_paid", "evt_sub_created"}

Session(status, amount, currency) ==
    [id |-> "cs_1", payment_status |-> status, amount_total |-> amount,
     currency |-> currency]

NoSession == Session("none", Absent, Absent)

\* An event id determines the event (type and data.object)
EventOf(e) ==
    CASE e = "evt_paid"           -> [type |-> "checkout.session.completed",
                                      object |-> Session("paid", Some(3000), Some("usd"))]
      [] e = "evt_unpaid"         -> [type |-> "checkout.session.completed",
                                      object |-> Session("unpaid", Some(3000), Some("usd"))]
      [] e = "evt_noamount"       -> [type |-> "checkout.session.completed",
                                      object |-> Session("paid", Absent, Some("usd"))]
      [] e = "evt_nocurrency"     -> [type |-> "checkout.session.completed",
                                      object |-> Session("paid", Some(3000), Absent)]
      [] e = "evt_refund"         -> [type |-> "charge.refunded", object |-> NoSession]
      [] e = "evt_pi_succeeded"   -> [type |-> "payment_intent.succeeded", object |-> NoSession]
      [] e = "evt_invoice_failed" -> [type |-> "invoice.payment_failed", object |-> NoSession]
      [] e = "evt_sub_updated"    -> [type |-> "customer.subscription.updated", object |-> NoSession]
      [] e = "evt_pi_failed"      -> [type |-> "payment_intent.payment_failed", object |-> NoSession]
      [] e = "evt_invoice_paid"   -> [type |-> "invoice.payment_succeeded", object |-> NoSession]
      [] e = "evt_sub_created"    -> [type |-> "customer.subscription.created", object |-> NoSession]
      [] OTHER                    -> [type |-> "test.signature.verification", object |-> NoSession]

\* the request slots: two deliveries, possibly in flight at the same time
Requests == {"r1", "r2"}

\* what the analytics sink (or the network) does with one delivery attempt
SinkOutcomes == {"2xx", "4xx", "429", "5xx", "network", "timeout"}

\* response.ok
ResponseOk(o) == o = "2xx"

\* Whether the sink took the request in.  A 2xx answer says it did; an error
\* status or a network error says it did not; controller.abort() after the
\* timeout only gives up waiting for the answer, so the request may or may
\* not have been taken in by then.
SinkTook(o) ==
    CASE o = "2xx"     -> {TRUE}
      [] o = "timeout" -> {TRUE, FALSE}
      [] OTHER         -> {FALSE}

VARIABLES
    runtime,                  \* "server" or "browser"
    serverAnalyticsInstance,  \* "null" or "instance"
    pc,                       \* position of each request in its handler
    notif,                    \* the notification each request carries
    response,                 \* HTTP status answered, 0 while none
    lookupCalls,              \* listLineItems calls made by each request
    payload,                  \* the Measurement Protocol payload built, or Absent
    retryCount,               \* sendEvent's retryCount parameter
    attempts,                 \* fetch calls issued by each request
    lastOutcome,              \* outcome of the request's latest fetch
    errorLog,                 \* retryCount of each logged 'GA4 Server Analytics Error'
    delay,                    \* backoff delays scheduled, in ms
    sendResult,               \* what sendEvent returned: "none", "true", "false"
    trackResult,              \* what trackServerPurchase returned, likewise
    consoleLog,               \* other console messages of each request
    sinkReceived,             \* how often the sink took in the payload of each request
    gtagAvailable,            \* window.gtag is defined
    isOnline,                 \* isOnline.current
    eventQueue,               \* eventQueue.current: <<[id, retryCount]>>
    timers,                   \* retry timers set by sendEvent and not yet fired
    gtagAttempts,             \* window.gtag('event', eventName, ...) calls made per event
    gtagFailures,             \* those of the calls that threw, per event
    gtagBatch,                \* the gtag calls made by the latest step, in order
    analyticsErrors,          \* the errors passed to logError so far
    tracked,                  \* application-level sendEvent calls made so far
    config,                   \* this.config of the ServerAnalytics under call
    callPc,                   \* where the sendEvent call stands
    callRetryCount,           \* its retryCount parameter
    fetchCount,               \* fetch calls the call has issued
    okResponses,              \* those answered with response.ok
    timeoutId,                \* the abort timer of the current attempt
    overdue,                  \* the current attempt is pending for longer than timeout
    returned,                 \* what the call returned: "none", "true", "false"
    sessionStorage,           \* the item 'analytics_session_id', or Absent
    visit,                    \* the storage lifetime (browsing session) under way
    returnedIds,              \* what getSessionId returned, per visit
    checkouts,                \* the visits in which a checkout was paid
    outbound,                 \* the analytics events sent, client and server
    signed,                   \* what the sender signed: payload, secret, timestamp
    wirePayload,              \* the request body as it reaches the endpoint
    wireHeader,               \* the Stripe-Signature header as it reaches the endpoint
    clock,                    \* the endpoint's time, in seconds
    verdict,                  \* the endpoint's answer to the delivery, 0 while none
    localStorage,             \* the item 'cart' of localStorage, or Absent
    mounted,                  \* a CartPage is mounted
    cart                      \* the cart state of the mounted CartPage

serverVars == <<serverAnalyticsInstance, pc, notif, response, lookupCalls, payload,
                retryCount, attempts, lastOutcome, errorLog, delay, sendResult,
                trackResult, consoleLog, sinkReceived>>

browserVars == <<gtagAvailable, isOnline, eventQueue, timers, gtagAttempts,
                 gtagFailures, gtagBatch, analyticsErrors, tracked>>

callVars == <<config, callPc, callRetryCount, fetchCount, okResponses, timeoutId,
              overdue, returned>>

sessionVars == <<sessionStorage, visit, returnedIds, checkouts, outbound>>

hmacVars == <<signed, wirePayload, wireHeader, clock, verdict>>

cartVars == <<localStorage, mounted, cart>>

otherVars == <<callVars, sessionVars, hmacVars, cartVars>>

\* everything but one group, for the steps that touch only that group
outsideCall == <<runtime, serverVars, browserVars, sessionVars, hmacVars, cartVars>>

outsideSession == <<runtime, serverVars, browserVars, callVars, hmacVars, cartVars>>

outsideHmac == <<runtime, serverVars, browserVars, callVars, sessionVars, cartVars>>

outsideCart == <<runtime, serverVars, browserVars, callVars, sessionVars, hmacVars>>

vars == <<runtime, serverVars, browserVars, otherVars>>

NoNotif == [handler |-> "none", eventId |-> "none", sig |-> "none", after |-> {}]

ServerInit ==
    /\ serverAnalyticsInstance \in {"null", "instance"}
    /\ pc = [r \in Requests |-> "idle"]
    /\ notif = [r \in Requests |-> NoNotif]
    /\ response = [r \in Requests |-> 0]
    /\ lookupCalls = [r \in Requests |-> 0]
    /\ payload = [r \in Requests |-> Absent]
    /\ retryCount = [r \in Requests |-> 0]
    /\ attempts = [r \in Requests |-> 0]
    /\ lastOutcome = [r \in Requests |-> "none"]
    /\ errorLog = [r \in Requests |-> <<>>]
    /\ delay = [r \in Requests |-> <<>>]
    /\ sendResult = [r \in Requests |-> "none"]
    /\ trackResult = [r \in Requests |-> "none"]
    /\ consoleLog = [r \in Requests |-> {}]
    /\ sinkReceived = [r \in Requests |-> 0]

\* the events the application tracks, named by the order of the calls
TrackedIds == 1..MaxTracked

\* what window.gtag does with one call
GtagOutcomes == {"ok", "throws"}

BrowserInit ==
    /\ gtagAvailable \in BOOLEAN
    /\ isOnline \in BOOLEAN
    /\ eventQueue = <<>>
    /\ timers = {}
    /\ gtagAttempts = [id \in TrackedIds |-> 0]
    /\ gtagFailures = [id \in TrackedIds |-> 0]
    /\ gtagBatch = <<>>
    /\ analyticsErrors = {}
    /\ tracked = 0

\* the server before any request
ServerIdle ==
    /\ serverAnalyticsInstance = "null"
    /\ pc = [r \in Requests |-> "idle"]
    /\ notif = [r \in Requests |-> NoNotif]
    /\ response = [r \in Requests |-> 0]
    /\ lookupCalls = [r \in Requests |-> 0]
    /\ payload = [r \in Requests |-> Absent]
    /\ retryCount = [r \in Requests |-> 0]
    /\ attempts = [r \in Requests |-> 0]
    /\ lastOutcome = [r \in Requests |-> "none"]
    /\ errorLog = [r \in Requests |-> <<>>]
    /\ delay = [r \in Requests |-> <<>>]
    /\ sendResult = [r \in Requests |-> "none"]
    /\ trackResult = [r \in Requests |-> "none"]
    /\ consoleLog = [r \in Requests |-> {}]
    /\ sinkReceived = [r \in Requests |-> 0]

\* a page on which the hook has just been mounted and nothing was tracked
BrowserIdle ==
    /\ gtagAvailable = FALSE
    /\ isOnline = TRUE
    /\ eventQueue = <<>>
    /\ timers = {}
    /\ gtagAttempts = [id \in TrackedIds |-> 0]
    /\ gtagFailures = [id \in TrackedIds |-> 0]
    /\ gtagBatch = <<>>
    /\ analyticsErrors = {}
    /\ tracked = 0

\* the defaults the ServerAnalytics constructor fills in
DefaultConfig == [debugMode |-> FALSE, enableRetries |-> TRUE, maxRetries |-> MaxRetries]

\* no sendEvent call under way
CallIdle ==
    /\ config = DefaultConfig
    /\ callPc = "idle"
    /\ callRetryCount = 0
    /\ fetchCount = 0
    /\ okResponses = 0
    /\ timeoutId = "none"
    /\ overdue = FALSE
    /\ returned = "none"

\* a first visit in which nothing has asked for the session id
SessionIdle ==
    /\ sessionStorage = Absent
    /\ visit = 1
    /\ returnedIds = {}
    /\ checkouts = {}
    /\ outbound = {}

\* no signed notification under way
HmacIdle ==
    /\ signed = Absent
    /\ wirePayload = Absent
    /\ wireHeader = Absent
    /\ clock = 0
    /\ verdict = 0

\* nothing in the cart and no CartPage mounted
CartIdle ==
    /\ localStorage = Absent
    /\ mounted = FALSE
    /\ cart = <<>>

OtherIdle == CallIdle /\ SessionIdle /\ HmacIdle /\ CartIdle

Init ==
    \/ runtime = "server" /\ ServerInit /\ BrowserIdle /\ OtherIdle
    \/ runtime = "browser" /\ BrowserInit /\ ServerIdle /\ OtherIdle

\* the event a request carries once constructEvent has parsed it
Event(r) == EventOf(notif[r].eventId)

\* return NextResponse.json(...) with the given status
Respond(r, status) ==
    /\ response' = [response EXCEPT ![r] = status]
    /\ pc' = [pc EXCEPT ![r] = "done"]

Log(r, msg) == consoleLog' = [consoleLog EXCEPT ![r] = @ \cup {msg}]

\* const payload = await request.text(); the signature header is read.
\* `after` records which requests had been answered when this one arrived.
Receive(r, h, e, s) ==
    /\ runtime = "server"
    /\ pc[r] = "idle"
    /\ notif' = [notif EXCEPT ![r] = [handler |-> h, eventId |-> e, sig |-> s,
                                      after |-> {q \in Requests : pc[q] = "done"}]]
    /\ pc' = [pc EXCEPT ![r] = "received"]
    /\ UNCHANGED <<browserVars, otherVars>>
    /\ UNCHANGED <<runtime, trackResult, sinkReceived, serverAnalyticsInstance, response, lookupCalls, payload,
                   retryCount, attempts, lastOutcome, errorLog, delay, sendResult,
                   consoleLog>>

\* stripe.webhooks.constructEvent throws unless the signature header verifies
ConstructEventThrows(s) == s # "valid"

\* variant of ConstructEvent whose catch block logs but does not return
ConstructEvent_NoReturn(r) ==
    /\ runtime = "server"
    /\ pc[r] = "received"
    /\ IF ConstructEventThrows(notif[r].sig)
         THEN Log(r, "Webhook signature verification failed.")
         ELSE UNCHANGED consoleLog
    /\ pc' = [pc EXCEPT ![r] = "switch"]
    /\ UNCHANGED <<browserVars, otherVars>>
    /\ UNCHANGED <<runtime, trackResult, sinkReceived, serverAnalyticsInstance, notif, response, lookupCalls,
                   payload, retryCount, attempts, lastOutcome, errorLog, delay,
                   sendResult>>

\* try { event = constructEvent(...) } catch { return 400 }
ConstructEvent(r) ==
    /\ runtime = "server"
    /\ pc[r] = "received"
    /\ IF ConstructEventThrows(notif[r].sig)
         THEN /\ Log(r, "Webhook signature verification failed.")
              /\ Respond(r, 400)
         ELSE /\ pc' = [pc EXCEPT ![r] = "switch"]
              /\ UNCHANGED <<response, consoleLog>>
    /\ UNCHANGED <<browserVars, otherVars>>
    /\ UNCHANGED <<runtime, trackResult, sinkReceived, serverAnalyticsInstance, notif, lookupCalls, payload,
                   retryCount, attempts, lastOutcome, errorLog, delay, sendResult>>

(***************************************************************************)
(* POST (webhook): the handler without analytics                           *)
(***************************************************************************)
\* the event types the switch has a case for
PlainCases == {"checkout.session.completed", "payment_intent.succeeded",
               "payment_intent.payment_failed", "charge.refunded"}

\* what each case of the switch writes to the console
PlainMessage(type) ==
    CASE type = "checkout.session.completed"    -> "Payment successful for session"
      [] type = "payment_intent.succeeded"      -> "PaymentIntent was successful"
      [] type = "payment_intent.payment_failed" -> "Payment failed"
      [] type = "charge.refunded"               -> "Refund processed"
      [] OTHER                                  -> "Unhandled event type"

\* try { switch (event.type) {...}; return 200 } catch { return 500 }
PlainSwitch(r) ==
    /\ runtime = "server"
    /\ pc[r] = "switch"
    /\ notif[r].handler = "webhook"
    /\ Log(r, PlainMessage(Event(r).type))
    /\ Respond(r, 200)
    /\ UNCHANGED <<browserVars, otherVars>>
    /\ UNCHANGED <<runtime, trackResult, sinkReceived, serverAnalyticsInstance, notif, lookupCalls, payload,
                   retryCount, attempts, lastOutcome, errorLog, delay, sendResult>>

(***************************************************************************)
(* POST (webhook with analytics)                                           *)
(***************************************************************************)
\* the event types the switch has a case for
AnalyticsCases == {"checkout.session.completed", "invoice.payment_failed",
                   "customer.subscription.updated", "customer.subscription.deleted"}

\* if (session.payment_status === 'paid' && session.amount_total)
ShouldTrackPurchase(session) ==
    session.payment_status = "paid" /\ Truthy(session.amount_total)

\* case 'checkout.session.completed': the guard, then the call of listLineItems
CheckoutSessionCompleted(r) ==
    /\ runtime = "server"
    /\ pc[r] = "switch"
    /\ notif[r].handler = "webhookAnalytics"
    /\ Event(r).type = "checkout.session.completed"
    /\ IF ShouldTrackPurchase(Event(r).object)
         THEN /\ lookupCalls' = [lookupCalls EXCEPT ![r] = @ + 1]
              /\ pc' = [pc EXCEPT ![r] = "listLineItems"]
              /\ UNCHANGED response
         ELSE /\ Respond(r, 200)
              /\ UNCHANGED lookupCalls
    /\ UNCHANGED <<browserVars, otherVars>>
    /\ UNCHANGED <<runtime, trackResult, sinkReceived, serverAnalyticsInstance, notif, payload, retryCount,
                   attempts, lastOutcome, errorLog, delay, sendResult, consoleLog>>

\* case 'invoice.payment_failed': break
InvoicePaymentFailed(r) ==
    /\ runtime = "server"
    /\ pc[r] = "switch"
    /\ notif[r].handler = "webhookAnalytics"
    /\ Event(r).type = "invoice.payment_failed"
    /\ Respond(r, 200)
    /\ UNCHANGED <<browserVars, otherVars>>
    /\ UNCHANGED <<runtime, trackResult, sinkReceived, serverAnalyticsInstance, notif, lookupCalls, payload,
                   retryCount, attempts, lastOutcome, errorLog, delay, sendResult,
                   consoleLog>>

\* case 'customer.subscription.updated' / 'deleted': await handleSubscriptionChange
SubscriptionChange(r) ==
    /\ runtime = "server"
    /\ pc[r] = "switch"
    /\ notif[r].handler = "webhookAnalytics"
    /\ Event(r).type \in {"customer.subscription.updated", "customer.subscription.deleted"}
    /\ pc' = [pc EXCEPT ![r] = "handleSubscriptionChange"]
    /\ UNCHANGED <<browserVars, otherVars>>
    /\ UNCHANGED <<runtime, trackResult, sinkReceived, serverAnalyticsInstance, notif, response, lookupCalls,
                   payload, retryCount, attempts, lastOutcome, errorLog, delay,
                   sendResult, consoleLog>>

\* handleSubscriptionChange settles; a rejection is not caught by the handler
SubscriptionChangeReturn(r, ok) ==
    /\ runtime = "server"
    /\ pc[r] = "handleSubscriptionChange"
    /\ Respond(r, IF ok THEN 200 ELSE 500)
    /\ UNCHANGED <<browserVars, otherVars>>
    /\ UNCHANGED <<runtime, trackResult, sinkReceived, serverAnalyticsInstance, notif, lookupCalls, payload,
                   retryCount, attempts, lastOutcome, errorLog, delay, sendResult,
                   consoleLog>>

\* variant of Unhandled that reports an unknown type as a bad request
Unhandled_BadRequest(r) ==
    /\ runtime = "server"
    /\ pc[r] = "switch"
    /\ notif[r].handler = "webhookAnalytics"
    /\ Event(r).type \notin AnalyticsCases
    /\ Log(r, "Unhandled event type")
    /\ Respond(r, 400)
    /\ UNCHANGED <<browserVars, otherVars>>
    /\ UNCHANGED <<runtime, trackResult, sinkReceived, serverAnalyticsInstance, notif, lookupCalls, payload,
                   retryCount, attempts, lastOutcome, errorLog, delay, sendResult>>

\* default: console.log(`Unhandled event type ...`), then return 200
Unhandled(r) ==
    /\ runtime = "server"
    /\ pc[r] = "switch"
    /\ notif[r].handler = "webhookAnalytics"
    /\ Event(r).type \notin AnalyticsCases
    /\ Log(r, "Unhandled event type")
    /\ Respond(r, 200)
    /\ UNCHANGED <<browserVars, otherVars>>
    /\ UNCHANGED <<runtime, trackResult, sinkReceived, serverAnalyticsInstance, notif, lookupCalls, payload,
                   retryCount, attempts, lastOutcome, errorLog, delay, sendResult>>

\* session.currency?.toUpperCase() || 'USD'
ToUpperCase(c) == IF c = "usd" THEN "USD" ELSE c

Currency(session) ==
    IF session.currency = Absent THEN "USD" ELSE ToUpperCase(session.currency[1])

\* trackPurchase: the payload built from the options the webhook passes
PurchasePayload(session) ==
    [name |-> "purchase",
     transaction_id |-> session.id,
     value |-> session.amount_total[1] \div 100,
     currency |-> Currency(session)]

\* variant of ListLineItemsReturn without the try/catch around the lookup: a
\* rejected lookup escapes the handler and the request is answered 500
ListLineItemsReturn_LookupUncaught(r, ok) ==
    /\ runtime = "server"
    /\ pc[r] = "listLineItems"
    /\ IF ~ok
         THEN /\ Log(r, "Failed to track purchase")
              /\ Respond(r, 500)
              /\ UNCHANGED <<payload, retryCount, trackResult>>
         ELSE IF serverAnalyticsInstance = "null"
                THEN /\ Log(r, "Server analytics not initialized")
                     /\ trackResult' = [trackResult EXCEPT ![r] = "false"]
                     /\ Respond(r, 200)
                     /\ UNCHANGED <<payload, retryCount>>
                ELSE /\ payload' = [payload EXCEPT ![r] = Some(PurchasePayload(Event(r).object))]
                     /\ retryCount' = [retryCount EXCEPT ![r] = 0]
                     /\ pc' = [pc EXCEPT ![r] = "fetch"]
                     /\ UNCHANGED <<response, consoleLog, trackResult>>
    /\ UNCHANGED <<browserVars, otherVars>>
    /\ UNCHANGED <<runtime, sinkReceived, serverAnalyticsInstance, notif, lookupCalls, attempts,
                   lastOutcome, errorLog, delay, sendResult>>

\* variant of ListLineItemsReturn in which trackServerPurchase does not look at
\* the instance: the purchase is built and sent whether or not analytics was
\* initialised
ListLineItemsReturn_NoInstanceCheck(r, ok) ==
    /\ runtime = "server"
    /\ pc[r] = "listLineItems"
    /\ IF ~ok
         THEN /\ Log(r, "Failed to track purchase")
              /\ Respond(r, 200)
              /\ UNCHANGED <<payload, retryCount, trackResult>>
         ELSE /\ payload' = [payload EXCEPT ![r] = Some(PurchasePayload(Event(r).object))]
              /\ retryCount' = [retryCount EXCEPT ![r] = 0]
              /\ pc' = [pc EXCEPT ![r] = "fetch"]
              /\ UNCHANGED <<response, consoleLog, trackResult>>
    /\ UNCHANGED <<browserVars, otherVars>>
    /\ UNCHANGED <<runtime, sinkReceived, serverAnalyticsInstance, notif, lookupCalls, attempts,
                   lastOutcome, errorLog, delay, sendResult>>

\* listLineItems settles.  A rejection is caught: 'Failed to track purchase'.
\* Otherwise trackServerPurchase runs: without an instance it warns and
\* returns false, with one trackPurchase builds the payload and calls sendEvent.
ListLineItemsReturn(r, ok) ==
    /\ runtime = "server"
    /\ pc[r] = "listLineItems"
    /\ IF ~ok
         THEN /\ Log(r, "Failed to track purchase")
              /\ Respond(r, 200)
              /\ UNCHANGED <<payload, retryCount, trackResult>>
         ELSE IF serverAnalyticsInstance = "null"
                THEN /\ Log(r, "Server analytics not initialized")
                     /\ trackResult' = [trackResult EXCEPT ![r] = "false"]
                     /\ Respond(r, 200)
                     /\ UNCHANGED <<payload, retryCount>>
                ELSE /\ payload' = [payload EXCEPT ![r] = Some(PurchasePayload(Event(r).object))]
                     /\ retryCount' = [retryCount EXCEPT ![r] = 0]
                     /\ pc' = [pc EXCEPT ![r] = "fetch"]
                     /\ UNCHANGED <<response, consoleLog, trackResult>>
    /\ UNCHANGED <<browserVars, otherVars>>
    /\ UNCHANGED <<runtime, sinkReceived, serverAnalyticsInstance, notif, lookupCalls, attempts,
                   lastOutcome, errorLog, delay, sendResult>>

(***************************************************************************)
(* ServerAnalytics.sendEvent                                               *)
(***************************************************************************)
\* variant of ShouldRetry that retries once more than maxRetries
ShouldRetry_Inclusive(rc) == EnableRetries /\ rc <= MaxRetries

\* variant of ShouldRetry that counts the first attempt against maxRetries
ShouldRetry_CountsFirst(rc) == EnableRetries /\ rc + 1 < MaxRetries

\* if (this.config.enableRetries && retryCount < this.config.maxRetries)
ShouldRetry(rc) == EnableRetries /\ rc < MaxRetries

\* const delay = Math.pow(2, retryCount) * 1000
BackoffDelay(rc) == (2 ^ rc) * 1000

\* One fetch of sendEvent and what follows it up to the next await: a 2xx
\* returns true (trackPurchase and trackServerPurchase return it, the webhook
\* then answers 200); anything else, an abort after
\* the timeout included, is thrown into the catch block, logged with the
\* retryCount, and either a backoff is awaited or false is returned.
Fetch(r, o, took) ==
    /\ runtime = "server"
    /\ pc[r] = "fetch"
    /\ took \in SinkTook(o)
    /\ attempts' = [attempts EXCEPT ![r] = @ + 1]
    /\ sinkReceived' = [sinkReceived EXCEPT ![r] = IF took THEN @ + 1 ELSE @]
    /\ lastOutcome' = [lastOutcome EXCEPT ![r] = o]
    /\ IF ResponseOk(o)
         THEN /\ sendResult' = [sendResult EXCEPT ![r] = "true"]
              /\ trackResult' = [trackResult EXCEPT ![r] = "true"]
              /\ Respond(r, 200)
              /\ UNCHANGED <<errorLog, delay>>
         ELSE /\ errorLog' = [errorLog EXCEPT ![r] = Append(@, retryCount[r])]
              /\ IF ShouldRetry(retryCount[r])
                   THEN /\ delay' = [delay EXCEPT ![r] = Append(@, BackoffDelay(retryCount[r]))]
                        /\ pc' = [pc EXCEPT ![r] = "backoff"]
                        /\ UNCHANGED <<sendResult, trackResult, response>>
                   ELSE /\ sendResult' = [sendResult EXCEPT ![r] = "false"]
                        /\ trackResult' = [trackResult EXCEPT ![r] = "false"]
                        /\ Respond(r, 200)
                        /\ UNCHANGED delay
    /\ UNCHANGED <<browserVars, otherVars>>
    /\ UNCHANGED <<runtime, serverAnalyticsInstance, notif, lookupCalls, payload,
                   retryCount, consoleLog>>

\* the backoff timer resolves: return this.sendEvent(payload, retryCount + 1)
BackoffElapsed(r) ==
    /\ runtime = "server"
    /\ pc[r] = "backoff"
    /\ retryCount' = [retryCount EXCEPT ![r] = @ + 1]
    /\ pc' = [pc EXCEPT ![r] = "fetch"]
    /\ UNCHANGED <<browserVars, otherVars>>
    /\ UNCHANGED <<runtime, trackResult, sinkReceived, serverAnalyticsInstance, notif, response, lookupCalls,
                   payload, attempts, lastOutcome, errorLog, delay, sendResult,
                   consoleLog>>

ServerNext ==
    \E r \in Requests :
       \/ \E h \in Handlers, e \in EventIds, s \in SigKinds : Receive(r, h, e, s)
       \/ ConstructEvent(r)
       \/ PlainSwitch(r)
       \/ CheckoutSessionCompleted(r)
       \/ InvoicePaymentFailed(r)
       \/ SubscriptionChange(r)
       \/ \E ok \in BOOLEAN : SubscriptionChangeReturn(r, ok)
       \/ Unhandled(r)
       \/ \E ok \in BOOLEAN : ListLineItemsReturn(r, ok)
       \/ \E o \in SinkOutcomes, took \in BOOLEAN : Fetch(r, o, took)
       \/ BackoffElapsed(r)

(***************************************************************************)
(* useAnalytics (browser)                                                  *)
(***************************************************************************)
\* the mutable state sendEvent and processEventQueue work on
ClientState ==
    [eventQueue |-> eventQueue, timers |-> timers, gtagAttempts |-> gtagAttempts,
     gtagFailures |-> gtagFailures, gtagBatch |-> <<>>,
     analyticsErrors |-> analyticsErrors]

\* if (retryCount < retryAttempts && enableOfflineQueue) in the catch block
ShouldRetryClient(rc) == rc < RetryAttempts /\ EnableOfflineQueue

\* Math.pow(2, retryCount) * 1000
ClientBackoffDelay(rc) == (2 ^ rc) * 1000

\* variant of Enqueue that evicts the oldest entry when the queue is full
Enqueue_EvictsOldest(q, id, rc) ==
    IF Len(q) < QueueMaxSize
      THEN Append(q, [id |-> id, retryCount |-> rc])
      ELSE Append(Tail(q), [id |-> id, retryCount |-> rc])

\* variant of Enqueue without the length test
Enqueue_Unbounded(q, id, rc) == Append(q, [id |-> id, retryCount |-> rc])

\* if (eventQueue.current.length < queueMaxSize) push
Enqueue(q, id, rc) ==
    IF Len(q) < QueueMaxSize THEN Append(q, [id |-> id, retryCount |-> rc]) ELSE q

\* variant of SendEvent that calls gtag first and queues only when it throws
SendEvent_SendsOffline(cs, id, rc, online, o) ==
    IF ~gtagAvailable
      THEN cs
      ELSE IF o = "ok"
        THEN [cs EXCEPT
                !.gtagAttempts[id] = @ + 1,
                !.gtagBatch = Append(@, [id |-> id, retryCount |-> rc, ok |-> TRUE])]
        ELSE [cs EXCEPT !.eventQueue = Enqueue(@, id, rc)]

\* variant of SendEvent that holds a new event back while a retry is pending
SendEvent_WaitsForRetries(cs, id, rc, online, o) ==
    IF ~gtagAvailable
      THEN cs
      ELSE IF (~online \/ cs.timers # {}) /\ EnableOfflineQueue
        THEN [cs EXCEPT !.eventQueue = Enqueue(@, id, rc)]
        ELSE IF o = "ok"
          THEN [cs EXCEPT
                  !.gtagAttempts[id] = @ + 1,
                  !.gtagBatch = Append(@, [id |-> id, retryCount |-> rc, ok |-> TRUE])]
          ELSE [cs EXCEPT
                  !.gtagAttempts[id] = @ + 1,
                  !.gtagFailures[id] = @ + 1,
                  !.gtagBatch = Append(@, [id |-> id, retryCount |-> rc, ok |-> FALSE]),
                  !.analyticsErrors = @ \cup {[code |-> "EVENT_SEND_ERROR", id |-> id]},
                  !.timers = IF ShouldRetryClient(rc)
                               THEN @ \cup {[id |-> id, retryCount |-> rc + 1,
                                             delay |-> ClientBackoffDelay(rc)]}
                               ELSE @]

\* variant of sendEvent that looks at the connection before it looks for
\* window.gtag: an event tracked offline is queued although gtag is missing
SendEvent_QueuesWithoutGtag(cs, id, rc, online, o) ==
    IF ~online /\ EnableOfflineQueue
      THEN [cs EXCEPT !.eventQueue = Enqueue(@, id, rc)]
      ELSE IF ~gtagAvailable
        THEN cs
        ELSE IF o = "ok"
          THEN [cs EXCEPT
                  !.gtagAttempts[id] = @ + 1,
                  !.gtagBatch = Append(@, [id |-> id, retryCount |-> rc, ok |-> TRUE])]
          ELSE [cs EXCEPT
                  !.gtagAttempts[id] = @ + 1,
                  !.gtagFailures[id] = @ + 1,
                  !.gtagBatch = Append(@, [id |-> id, retryCount |-> rc, ok |-> FALSE]),
                  !.analyticsErrors = @ \cup {[code |-> "EVENT_SEND_ERROR", id |-> id]},
                  !.timers = IF ShouldRetryClient(rc)
                               THEN @ \cup {[id |-> id, retryCount |-> rc + 1,
                                             delay |-> ClientBackoffDelay(rc)]}
                               ELSE @]

\* sendEvent(eventName, parameters, retryCount) on state cs, with window.gtag
\* behaving as o if it is called
SendEvent(cs, id, rc, online, o) ==
    IF ~gtagAvailable
      THEN cs
      ELSE IF ~online /\ EnableOfflineQueue
        THEN [cs EXCEPT !.eventQueue = Enqueue(@, id, rc)]
        ELSE IF o = "ok"
          THEN [cs EXCEPT
                  !.gtagAttempts[id] = @ + 1,
                  !.gtagBatch = Append(@, [id |-> id, retryCount |-> rc, ok |-> TRUE])]
          ELSE [cs EXCEPT
                  !.gtagAttempts[id] = @ + 1,
                  !.gtagFailures[id] = @ + 1,
                  !.gtagBatch = Append(@, [id |-> id, retryCount |-> rc, ok |-> FALSE]),
                  !.analyticsErrors = @ \cup {[code |-> "EVENT_SEND_ERROR", id |-> id]},
                  !.timers = IF ShouldRetryClient(rc)
                               THEN @ \cup {[id |-> id, retryCount |-> rc + 1,
                                             delay |-> ClientBackoffDelay(rc)]}
                               ELSE @]

\* variant of ForEachQueued that walks the queue from its newest entry
RECURSIVE ForEachQueued_Reversed(_, _, _, _)
ForEachQueued_Reversed(cs, entries, outs, online) ==
    IF entries = <<>>
      THEN cs
      ELSE LET n == Len(entries)
               e == entries[n]
               cs1 == IF e.retryCount < RetryAttempts
                        THEN SendEvent(cs, e.id, e.retryCount + 1, online, outs[n])
                        ELSE [cs EXCEPT !.analyticsErrors =
                                 @ \cup {[code |-> "MAX_RETRIES_EXCEEDED", id |-> e.id]}]
           IN ForEachQueued_Reversed(cs1, SubSeq(entries, 1, n - 1),
                                     SubSeq(outs, 1, n - 1), online)

\* queueToProcess.forEach: resend with retryCount + 1, or log MAX_RETRIES_EXCEEDED
RECURSIVE ForEachQueued(_, _, _, _)
ForEachQueued(cs, entries, outs, online) ==
    IF entries = <<>>
      THEN cs
      ELSE LET e == Head(entries)
               cs1 == IF e.retryCount < RetryAttempts
                        THEN SendEvent(cs, e.id, e.retryCount + 1, online, Head(outs))
                        ELSE [cs EXCEPT !.analyticsErrors =
                                 @ \cup {[code |-> "MAX_RETRIES_EXCEEDED", id |-> e.id]}]
           IN ForEachQueued(cs1, Tail(entries), Tail(outs), online)

\* processEventQueue(): takes the whole queue, empties it, handles each entry
ProcessEventQueue(cs, online, outs) ==
    IF ~EnableOfflineQueue \/ cs.eventQueue = <<>>
      THEN cs
      ELSE ForEachQueued([cs EXCEPT !.eventQueue = <<>>], cs.eventQueue, outs, online)

\* write a client state back to the variables
Store(cs) ==
    /\ eventQueue' = cs.eventQueue
    /\ timers' = cs.timers
    /\ gtagAttempts' = cs.gtagAttempts
    /\ gtagFailures' = cs.gtagFailures
    /\ gtagBatch' = cs.gtagBatch
    /\ analyticsErrors' = cs.analyticsErrors

\* the outcomes of the gtag calls one pass over the queue may make
QueueOutcomes == [1..Len(eventQueue) -> GtagOutcomes]

\* the application tracks a new event: sendEvent(eventName, parameters)
Track(o) ==
    /\ runtime = "browser"
    /\ tracked < MaxTracked
    /\ tracked' = tracked + 1
    /\ Store(SendEvent(ClientState, tracked + 1, 0, isOnline, o))
    /\ UNCHANGED <<runtime, otherVars, serverVars, gtagAvailable, isOnline>>

\* window 'online' event: isOnline.current = true; processEventQueue()
HandleOnline(outs) ==
    /\ runtime = "browser"
    /\ ~isOnline
    /\ isOnline' = TRUE
    /\ Store(ProcessEventQueue(ClientState, TRUE, outs))
    /\ UNCHANGED <<runtime, otherVars, serverVars, gtagAvailable, tracked>>

\* window 'offline' event: isOnline.current = false
HandleOffline ==
    /\ runtime = "browser"
    /\ isOnline
    /\ isOnline' = FALSE
    /\ gtagBatch' = <<>>
    /\ UNCHANGED <<runtime, otherVars, serverVars, gtagAvailable, eventQueue, timers, gtagAttempts,
                   gtagFailures, analyticsErrors, tracked>>

\* the application calls the processEventQueue the hook returns
CallProcessEventQueue(outs) ==
    /\ runtime = "browser"
    /\ eventQueue # <<>>
    /\ Store(ProcessEventQueue(ClientState, isOnline, outs))
    /\ UNCHANGED <<runtime, otherVars, serverVars, gtagAvailable, isOnline, tracked>>

\* a retry timer fires: sendEvent(eventName, parameters, retryCount + 1)
TimerFires(t, o) ==
    /\ runtime = "browser"
    /\ t \in timers
    /\ Store(SendEvent([ClientState EXCEPT !.timers = @ \ {t}], t.id, t.retryCount,
                       isOnline, o))
    /\ UNCHANGED <<runtime, otherVars, serverVars, gtagAvailable, isOnline, tracked>>

\* the gtag script finishes loading and defines window.gtag
GtagLoaded ==
    /\ runtime = "browser"
    /\ ~gtagAvailable
    /\ gtagAvailable' = TRUE
    /\ gtagBatch' = <<>>
    /\ UNCHANGED <<runtime, otherVars, serverVars, isOnline, eventQueue, timers, gtagAttempts,
                   gtagFailures, analyticsErrors, tracked>>

BrowserNext ==
    \/ \E o \in GtagOutcomes : Track(o)
    \/ \E outs \in QueueOutcomes : HandleOnline(outs)
    \/ HandleOffline
    \/ \E outs \in QueueOutcomes : CallProcessEventQueue(outs)
    \/ \E t \in timers, o \in GtagOutcomes : TimerFires(t, o)
    \/ GtagLoaded

Next == ServerNext \/ BrowserNext

(***************************************************************************)
(* A reconnection after a long offline period.  With the default           *)
(* queueMaxSize of 100 the queue can hold more events than the rate        *)
(* ceilings of EVENT_CONFIG allow per second; BurstInit is the hook after  *)
(* n events were tracked offline, for every n up to BurstSize.             *)
(***************************************************************************)
\* EVENT_CONFIG.MAX_EVENTS_PER_SECOND
MaxEventsPerSecond == 10

\* the largest number of events queued before the reconnection
BurstSize == 11

BurstInit ==
    /\ runtime = "browser"
    /\ ServerIdle
    /\ gtagAvailable = TRUE
    /\ isOnline = FALSE
    /\ \E n \in 0..BurstSize :
          /\ eventQueue = [i \in 1..n |-> [id |-> i, retryCount |-> 0]]
          /\ tracked = n
    /\ timers = {}
    /\ gtagAttempts = [id \in 1..BurstSize |-> 0]
    /\ gtagFailures = [id \in 1..BurstSize |-> 0]
    /\ gtagBatch = <<>>
    /\ analyticsErrors = {}
    /\ OtherIdle

\* the connection comes and goes; retry timers are left pending
BurstNext ==
    \/ \E outs \in QueueOutcomes : HandleOnline(outs)
    \/ HandleOffline

BurstSpec == BurstInit /\ [][BurstNext]_vars

(***************************************************************************)
(* One call of ServerAnalytics.sendEvent, under every configuration the    *)
(* constructor accepts, with the abort timer and the debug-mode read of    *)
(* the response body.                                                      *)
(***************************************************************************)
\* this.config = { debugMode, enableRetries, maxRetries, timeout, ...config }
Configs == [debugMode : BOOLEAN, enableRetries : BOOLEAN, maxRetries : 0..MaxRetries]

CallInit ==
    /\ runtime = "call"
    /\ ServerIdle
    /\ BrowserIdle
    /\ SessionIdle
    /\ HmacIdle
    /\ CartIdle
    /\ config \in Configs
    /\ callPc = "idle"
    /\ callRetryCount = 0
    /\ fetchCount = 0
    /\ okResponses = 0
    /\ timeoutId = "none"
    /\ overdue = FALSE
    /\ returned = "none"

\* setTimeout(() => controller.abort(), this.config.timeout); fetch(url, ...)
StartAttempt ==
    /\ fetchCount' = fetchCount + 1
    /\ timeoutId' = "armed"
    /\ overdue' = FALSE
    /\ callPc' = "fetch"

\* the catch block: log, then back off or return false
CatchBlock ==
    IF config.enableRetries /\ callRetryCount < config.maxRetries
      THEN callPc' = "backoff" /\ UNCHANGED returned
      ELSE callPc' = "returned" /\ returned' = "false"

\* sendEvent(payload) is called; retryCount defaults to 0
SendEventCalled ==
    /\ runtime = "call"
    /\ callPc = "idle"
    /\ StartAttempt
    /\ UNCHANGED <<config, callRetryCount, okResponses, returned>>
    /\ UNCHANGED outsideCall

\* the awaited fetch settles before the abort timer fires: with a response
\* (clearTimeout, then !response.ok throws) or with a network error
FetchSettles(o) ==
    /\ runtime = "call"
    /\ callPc = "fetch"
    /\ o # "timeout"
    /\ IF ResponseOk(o)
         THEN /\ timeoutId' = "cleared"
              /\ okResponses' = okResponses + 1
              /\ IF config.debugMode
                   THEN callPc' = "text" /\ UNCHANGED returned
                   ELSE callPc' = "returned" /\ returned' = "true"
         ELSE /\ timeoutId' = IF o = "network" THEN timeoutId ELSE "cleared"
              /\ CatchBlock
              /\ UNCHANGED okResponses
    /\ UNCHANGED <<config, callRetryCount, fetchCount, overdue>>
    /\ UNCHANGED outsideCall

\* timeout ms after the attempt began the timer calls controller.abort() and
\* the pending fetch rejects
AbortFires ==
    /\ runtime = "call"
    /\ callPc = "fetch"
    /\ timeoutId = "armed"
    /\ timeoutId' = "fired"
    /\ CatchBlock
    /\ UNCHANGED <<config, callRetryCount, fetchCount, okResponses, overdue>>
    /\ UNCHANGED outsideCall

\* timeout ms after the attempt began, while response.text() is awaited: the
\* timer was cleared when the response arrived, so nothing fires
TimeoutElapses ==
    /\ runtime = "call"
    /\ callPc = "text"
    /\ ~overdue
    /\ overdue' = TRUE
    /\ UNCHANGED <<config, callPc, callRetryCount, fetchCount, okResponses, timeoutId,
                   returned>>
    /\ UNCHANGED outsideCall

\* debug mode: await response.text() resolves, the text is logged, return true
TextResolves ==
    /\ runtime = "call"
    /\ callPc = "text"
    /\ callPc' = "returned"
    /\ returned' = "true"
    /\ UNCHANGED <<config, callRetryCount, fetchCount, okResponses, timeoutId, overdue>>
    /\ UNCHANGED outsideCall

\* debug mode: await response.text() rejects (the connection breaks while the
\* body is read); the rejection is thrown into the same catch block
TextRejects ==
    /\ runtime = "call"
    /\ callPc = "text"
    /\ CatchBlock
    /\ UNCHANGED <<config, callRetryCount, fetchCount, okResponses, timeoutId, overdue>>
    /\ UNCHANGED outsideCall

\* the backoff resolves: return this.sendEvent(payload, retryCount + 1)
BackoffResolves ==
    /\ runtime = "call"
    /\ callPc = "backoff"
    /\ callRetryCount' = callRetryCount + 1
    /\ StartAttempt
    /\ UNCHANGED <<config, okResponses, returned>>
    /\ UNCHANGED outsideCall

CallNext ==
    \/ SendEventCalled
    \/ \E o \in SinkOutcomes : FetchSettles(o)
    \/ AbortFires
    \/ TimeoutElapses
    \/ TextResolves
    \/ TextRejects
    \/ BackoffResolves

CallSpec == CallInit /\ [][CallNext]_vars

(***************************************************************************)
(* The analytics session id: getSessionId in the browser, the events that  *)
(* carry it, and the purchase event the webhook sends for a checkout.      *)
(***************************************************************************)
\* number of storage lifetimes (visits) in a run
MaxVisits == 2

\* what Date.now().toString(36) + Math.random().toString(36).substr(2) yields
GeneratedIds == {"id_a", "id_b"}

\* variant of GetSessionId that generates a new id on every call
GetSessionId_AlwaysGenerates(hasWindow, stored, fresh) ==
    IF ~hasWindow
      THEN [id |-> "server", stored |-> stored]
      ELSE [id |-> fresh, stored |-> Some(fresh)]

\* getSessionId(): the id returned and the stored item afterwards
GetSessionId(hasWindow, stored, fresh) ==
    IF ~hasWindow
      THEN [id |-> "server", stored |-> stored]
      ELSE IF stored = Absent
             THEN [id |-> fresh, stored |-> Some(fresh)]
             ELSE [id |-> stored[1], stored |-> stored]

\* generateClientId(userId, sessionId, ipAddress, userAgent)
GenerateClientId(userId, sessionId, ipAndAgent) ==
    IF userId # Absent THEN <<"user", userId[1]>>
    ELSE IF sessionId # Absent THEN <<"session", sessionId[1]>>
    ELSE IF ipAndAgent # Absent THEN <<"generated", ipAndAgent[1]>>
    ELSE <<"server", "random">>

\* the options the webhook passes to trackServerPurchase: userId is
\* session.customer; clientId, sessionId, ipAddress, userAgent are not passed
WebhookOptions(customer) ==
    [userId |-> customer, clientId |-> Absent, sessionId |-> Absent,
     ipAndAgent |-> Absent]

\* trackPurchase: client_id and session id of the payload built from options
ServerEvent(options) ==
    [client_id |-> IF options.clientId # Absent
                     THEN options.clientId[1]
                     ELSE GenerateClientId(options.userId, options.sessionId,
                                           options.ipAndAgent),
     session_id |-> Absent]

SessionInit ==
    /\ runtime = "session"
    /\ ServerIdle
    /\ BrowserIdle
    /\ CallIdle
    /\ SessionIdle
    /\ HmacIdle
    /\ CartIdle

\* a caller asks for the id (during server rendering there is no window)
CallGetSessionId(hasWindow, fresh) ==
    /\ runtime = "session"
    /\ LET got == GetSessionId(hasWindow, sessionStorage, fresh) IN
         /\ sessionStorage' = got.stored
         /\ returnedIds' = IF hasWindow
                             THEN returnedIds \cup {[visit |-> visit, id |-> got.id]}
                             ELSE returnedIds
    /\ UNCHANGED <<visit, checkouts, outbound>>
    /\ UNCHANGED outsideSession

\* sendEvent in the browser: enrichedParameters.session_id = getSessionId()
ClientSendEvent(fresh) ==
    /\ runtime = "session"
    /\ LET got == GetSessionId(TRUE, sessionStorage, fresh) IN
         /\ sessionStorage' = got.stored
         /\ returnedIds' = returnedIds \cup {[visit |-> visit, id |-> got.id]}
         /\ outbound' = outbound \cup
               {[origin |-> "client", visit |-> visit, session_id |-> Some(got.id),
                 client_id |-> <<"gtag", "cookie">>]}
    /\ UNCHANGED <<visit, checkouts>>
    /\ UNCHANGED outsideSession

\* the visitor pays a checkout during this visit
CheckoutPaid ==
    /\ runtime = "session"
    /\ checkouts' = checkouts \cup {visit}
    /\ UNCHANGED <<sessionStorage, visit, returnedIds, outbound>>
    /\ UNCHANGED outsideSession

\* the webhook receives checkout.session.completed for a checkout of visit v
\* and calls trackServerPurchase
WebhookPurchase(v, customer) ==
    /\ runtime = "session"
    /\ v \in checkouts
    /\ LET ev == ServerEvent(WebhookOptions(customer)) IN
         outbound' = outbound \cup
            {[origin |-> "server", visit |-> v, session_id |-> ev.session_id,
              client_id |-> ev.client_id]}
    /\ UNCHANGED <<sessionStorage, visit, returnedIds, checkouts>>
    /\ UNCHANGED outsideSession

\* the tab is closed and a new one opened: sessionStorage starts empty
NewVisit ==
    /\ runtime = "session"
    /\ visit < MaxVisits
    /\ visit' = visit + 1
    /\ sessionStorage' = Absent
    /\ UNCHANGED <<returnedIds, checkouts, outbound>>
    /\ UNCHANGED outsideSession

SessionNext ==
    \/ \E hasWindow \in BOOLEAN, fresh \in GeneratedIds : CallGetSessionId(hasWindow, fresh)
    \/ \E fresh \in GeneratedIds : ClientSendEvent(fresh)
    \/ CheckoutPaid
    \/ \E v \in 1..MaxVisits, customer \in {Absent, Some("cus_1")} : WebhookPurchase(v, customer)
    \/ NewVisit

SessionSpec == SessionInit /\ [][SessionNext]_vars

(***************************************************************************)
(* Signed notifications: the sender's createWebhookSignature, the header   *)
(* on the wire, and the endpoint's constructEvent.  HMAC-SHA256 is taken   *)
(* as collision free: a digest is determined by, and determines, its key   *)
(* and message.                                                            *)
(***************************************************************************)
\* request bodies
Payloads == {"body_1", "body_2"}

\* STRIPE_WEBHOOK_SECRET of the endpoint, and another secret
WebhookSecret == "whsec_endpoint"

Secrets == {WebhookSecret, "whsec_other"}

\* Math.floor(Date.now() / 1000) when the sender signs
SignTimes == {1000}

\* tolerance of the verification, in seconds
Tolerance == 300

\* how long after signing a delivery may reach the endpoint, in seconds
Delays == {0, Tolerance - 1, Tolerance, Tolerance + 1}

\* `${timestamp}.${payload}`
SignedPayload(timestamp, body) == <<timestamp, ".", body>>

\* crypto.createHmac('sha256', secret).update(message).digest('hex')
Hmac(secret, message) == <<"sha256", secret, message>>

\* `t=${timestamp},v1=${signature}`, as the list of its key=value items
Header(timestamp, signature) ==
    <<[key |-> "t", value |-> timestamp], [key |-> "v1", value |-> signature]>>

\* variant of CreateWebhookSignature that signs the payload without the
\* timestamp prefix
CreateWebhookSignature_NoTimestamp(body, secret, now) ==
    Header(now, Hmac(secret, <<body>>))

\* createWebhookSignature(payload, secret), called at time now
CreateWebhookSignature(body, secret, now) ==
    Header(now, Hmac(secret, SignedPayload(now, body)))

\* the items of a header with the given key
Items(header, key) == {i \in 1..Len(header) : header[i].key = key}

\* the verifier: how the endpoint's constructEvent classifies a delivery
SigKindOf(body, header, secret, now) ==
    IF header = Absent THEN "missing"
    ELSE IF Items(header[1], "t") = {} \/ Items(header[1], "v1") = {} THEN "malformed"
    ELSE LET h == header[1]
             t == h[CHOOSE i \in Items(h, "t") : TRUE].value
             expected == Hmac(secret, SignedPayload(t, body))
         IN IF \A i \in Items(h, "v1") : h[i].value # expected THEN "mismatched"
            ELSE IF now - t > Tolerance \/ t - now > Tolerance THEN "expired"
            ELSE "valid"

\* the sender signs a body and posts it
HmacInit ==
    /\ runtime = "verifier"
    /\ ServerIdle
    /\ BrowserIdle
    /\ CallIdle
    /\ SessionIdle
    /\ CartIdle
    /\ \E body \in Payloads, secret \in Secrets, now \in SignTimes :
          /\ signed = Some([body |-> body, secret |-> secret, timestamp |-> now])
          /\ wirePayload = Some(body)
          /\ wireHeader = Some(CreateWebhookSignature(body, secret, now))
          /\ clock = now
    /\ verdict = 0

\* the body is altered on the way
TamperPayload(body) ==
    /\ runtime = "verifier"
    /\ verdict = 0
    /\ wirePayload # Some(body)
    /\ wirePayload' = Some(body)
    /\ UNCHANGED <<signed, wireHeader, clock, verdict>>
    /\ UNCHANGED outsideHmac

\* the v1 signature of the header is replaced by another digest
TamperSignature(body, secret) ==
    /\ runtime = "verifier"
    /\ verdict = 0
    /\ wireHeader # Absent
    /\ LET t == signed[1].timestamp
           forged == Header(t, Hmac(secret, SignedPayload(t, body)))
       IN /\ wireHeader # Some(forged)
          /\ wireHeader' = Some(forged)
    /\ UNCHANGED <<signed, wirePayload, clock, verdict>>
    /\ UNCHANGED outsideHmac

\* the delivery is held back (or replayed later)
Delayed(d) ==
    /\ runtime = "verifier"
    /\ verdict = 0
    /\ clock = signed[1].timestamp
    /\ d > 0
    /\ clock' = clock + d
    /\ UNCHANGED <<signed, wirePayload, wireHeader, verdict>>
    /\ UNCHANGED outsideHmac

\* variant of VerdictOf in which the catch block lets an expired signature pass
VerdictOf_ExpiredPasses(kind) ==
    IF ConstructEventThrows(kind) /\ kind # "expired" THEN 400 ELSE 200

\* try { constructEvent(...) } catch { return 400 }; a verified notification
\* goes on to the switch and is answered 200
VerdictOf(kind) == IF ConstructEventThrows(kind) THEN 400 ELSE 200

\* POST: the endpoint reads body and header and calls constructEvent
Deliver ==
    /\ runtime = "verifier"
    /\ verdict = 0
    /\ verdict' = VerdictOf(SigKindOf(wirePayload[1], wireHeader, WebhookSecret, clock))
    /\ UNCHANGED <<signed, wirePayload, wireHeader, clock>>
    /\ UNCHANGED outsideHmac

HmacNext ==
    \/ \E body \in Payloads : TamperPayload(body)
    \/ \E body \in Payloads, secret \in Secrets : TamperSignature(body, secret)
    \/ \E d \in Delays : Delayed(d)
    \/ Deliver

HmacSpec == HmacInit /\ [][HmacNext]_vars

\* ---------------------------------------------------------------------------
\* The verification script's simulateWebhookEvents against the webhook with
\* analytics: every notification is correctly signed with the endpoint's
\* secret and is of one of the five simulated types.
\* ---------------------------------------------------------------------------

SimInit ==
    /\ runtime = "server"
    /\ ServerInit
    /\ BrowserIdle
    /\ OtherIdle

\* for (const eventType of testEvents): sign, POST, read the status
Simulate(r, e) == Receive(r, "webhookAnalytics", e, "valid")

SimNext ==
    \E r \in Requests :
       \/ \E e \in SimulatedEvents : Simulate(r, e)
       \/ ConstructEvent(r)
       \/ CheckoutSessionCompleted(r)
       \/ Unhandled(r)
       \/ \E ok \in BOOLEAN : ListLineItemsReturn(r, ok)
       \/ \E o \in SinkOutcomes, took \in BOOLEAN : Fetch(r, o, took)
       \/ BackoffElapsed(r)

SimSpec == SimInit /\ [][SimNext]_vars

\* ---------------------------------------------------------------------------
\* The cart: Home.addToCart writes the item 'cart' of localStorage, CartPage
\* loads it into its state when it mounts and updateQuantity writes the state
\* back.  A CartPage may stay mounted in one tab while Home adds in another.
\* ---------------------------------------------------------------------------

\* the (print, variant) pairs on sale
Catalogue == {<<"print_1", "variant_a">>, <<"print_1", "variant_b">>,
              <<"print_2", "variant_a">>}

\* quantities are followed up to this bound
MaxQuantity == 2

\* JSON.parse(localStorage.getItem('cart') || '[]')
StoredCart == IF localStorage = Absent THEN <<>> ELSE localStorage[1]

\* cart.findIndex(item => item.printId === print.id && item.variantId === variant.id),
\* 0 for the -1 of an index that starts at 0
FindIndex(items, printId, variantId) ==
    LET hits == {i \in 1..Len(items) :
                    items[i].printId = printId /\ items[i].variantId = variantId}
    IN IF hits = {} THEN 0 ELSE CHOOSE i \in hits : \A j \in hits : i <= j

\* newCart.splice(index, 1)
Splice(items, index) ==
    [i \in 1..(Len(items) - 1) |-> IF i < index THEN items[i] ELSE items[i + 1]]

\* the cart addToCart writes back
AddedToCart(items, printId, variantId) ==
    LET existing == FindIndex(items, printId, variantId)
    IN IF existing >= 1
         THEN [items EXCEPT ![existing].quantity = @ + 1]
         ELSE Append(items, [printId |-> printId, variantId |-> variantId,
                             quantity |-> 1])

\* variant of NewCart that stores whatever quantity it is given
NewCart_StoresAnyQuantity(items, index, quantity) ==
    [items EXCEPT ![index].quantity = quantity]

\* the newCart of updateQuantity(index, quantity)
NewCart(items, index, quantity) ==
    IF quantity <= 0
      THEN Splice(items, index)
      ELSE [items EXCEPT ![index].quantity = quantity]

CartInit ==
    /\ runtime = "cart"
    /\ ServerIdle
    /\ BrowserIdle
    /\ CallIdle
    /\ SessionIdle
    /\ HmacIdle
    /\ CartIdle

\* Home: the visitor adds a print in a variant
AddToCart(printId, variantId) ==
    /\ runtime = "cart"
    /\ LET existing == FindIndex(StoredCart, printId, variantId)
       IN existing >= 1 => StoredCart[existing].quantity < MaxQuantity
    /\ localStorage' = Some(AddedToCart(StoredCart, printId, variantId))
    /\ UNCHANGED <<mounted, cart>>
    /\ UNCHANGED outsideCart

\* CartPage mounts: useEffect loads the saved cart, if there is one
MountCartPage ==
    /\ runtime = "cart"
    /\ ~mounted
    /\ mounted' = TRUE
    /\ cart' = IF localStorage # Absent THEN localStorage[1] ELSE <<>>
    /\ UNCHANGED localStorage
    /\ UNCHANGED outsideCart

\* the visitor leaves the cart page
UnmountCartPage ==
    /\ runtime = "cart"
    /\ mounted
    /\ mounted' = FALSE
    /\ cart' = <<>>
    /\ UNCHANGED localStorage
    /\ UNCHANGED outsideCart

\* updateQuantity(index, quantity): setCart(newCart) and setItem('cart', newCart)
UpdateQuantity(index, quantity) ==
    /\ runtime = "cart"
    /\ mounted
    /\ index \in 1..Len(cart)
    /\ quantity <= MaxQuantity
    /\ cart' = NewCart(cart, index, quantity)
    /\ localStorage' = Some(cart')
    /\ UNCHANGED mounted
    /\ UNCHANGED outsideCart

\* the "-" button of an entry: updateQuantity(index, item.quantity - 1)
Minus(index) ==
    /\ index \in 1..Len(cart)
    /\ UpdateQuantity(index, cart[index].quantity - 1)

\* the "+" button of an entry: updateQuantity(index, item.quantity + 1)
Plus(index) ==
    /\ index \in 1..Len(cart)
    /\ UpdateQuantity(index, cart[index].quantity + 1)

CartNext ==
    \/ \E item \in Catalogue : AddToCart(item[1], item[2])
    \/ MountCartPage
    \/ UnmountCartPage
    \/ \E index \in 1..Cardinality(Catalogue) : Minus(index)
    \/ \E index \in 1..Cardinality(Catalogue) : Plus(index)

CartSpec == CartInit /\ [][CartNext]_vars

Spec == Init /\ [][Next]_vars

TypeOK ==
    /\ runtime \in {"server", "browser"}
    /\ serverAnalyticsInstance \in {"null", "instance"}
    /\ \A r \in Requests :
         /\ pc[r] \in {"idle", "received", "switch", "listLineItems",
                       "handleSubscriptionChange", "fetch", "backoff", "done"}
         /\ response[r] \in {0, 200, 400, 500}
         /\ attempts[r] \in 0..(MaxRetries + 2)
         /\ sendResult[r] \in {"none", "true", "false"}
    /\ gtagAvailable \in BOOLEAN
    /\ isOnline \in BOOLEAN
    /\ tracked \in 0..MaxTracked
    /\ \A i \in 1..Len(eventQueue) : eventQueue[i].id \in TrackedIds
    /\ \A t \in timers : t.id \in TrackedIds

(***************************************************************************)
(* Derived views of the state                                              *)
(***************************************************************************)
\* the request passed signature verification
Verified(r) == notif[r].sig = "valid"

\* the request was answered
Answered(r) == pc[r] = "done"

\* the types the request's handler has a case for
CasesOf(r) == IF notif[r].handler = "webhook" THEN PlainCases ELSE AnalyticsCases

\* the request ran the purchase branch of checkout.session.completed
Fresh(r) == lookupCalls[r] > 0

\* the request is inside the purchase branch right now
InPurchaseBranch(r) == pc[r] \in {"listLineItems", "fetch", "backoff"}

\* the request has no effect beyond its response
NoSideEffects(r) ==
    /\ lookupCalls[r] = 0
    /\ attempts[r] = 0
    /\ payload[r] = Absent
    /\ errorLog[r] = <<>>

\* an outbound analytics event was derived and handed to sendEvent
HandedToDelivery(r) == payload[r] # Absent

\* r and q carry the same verified event to the analytics webhook
SameEvent(r, q) ==
    /\ r # q
    /\ Verified(r) /\ Verified(q)
    /\ notif[r].eventId = notif[q].eventId
    /\ notif[r].handler = "webhookAnalytics"
    /\ notif[q].handler = "webhookAnalytics"

\* gtag calls made for a tracked event, and those that threw
ClientAttempts(id) == gtagAttempts[id]

ClientFailures(id) == gtagFailures[id]

\* the event still waits in the offline queue or for a retry timer
ClientPending(id) ==
    \/ \E t \in timers : t.id = id
    \/ \E i \in 1..Len(eventQueue) : eventQueue[i].id = id

(***************************************************************************)
(* Claims                                                                  *)
(***************************************************************************)
\* C1: a notification whose signature constructEvent rejects is answered 400
\* and never dispatched: it never reaches the switch, makes no line-item
\* lookup, builds no payload and attempts no analytics delivery.
C1_RejectedSignatureNotDispatched ==
    \A r \in Requests :
       (notif[r].sig \in SigKinds /\ ConstructEventThrows(notif[r].sig)) =>
          /\ pc[r] \in {"received", "done"}
          /\ Answered(r) => response[r] = 400
          /\ NoSideEffects(r)
          /\ consoleLog[r] \subseteq {"Webhook signature verification failed."}

C1_Witness ==
    \E r \in Requests :
       /\ notif[r].sig = "expired"
       /\ notif[r].handler = "webhookAnalytics"
       /\ notif[r].eventId = "evt_paid"
       /\ Answered(r)
       /\ response[r] = 400

\* C2: when a verified event is delivered again after an earlier delivery of
\* the same event id was processed and answered, the second delivery is a
\* duplicate with zero side effects (no lookup, no purchase analytics event).
C2_ReplayHasNoSideEffects ==
    \A r, q \in Requests :
       (SameEvent(r, q) /\ q \in notif[r].after /\ Fresh(q)) =>
          (NoSideEffects(r) /\ consoleLog[r] = {})

\* C3: two deliveries of the same event id are never both inside the purchase
\* handler: at most one of two concurrent deliveries is processed as fresh.
C3_ConcurrentNotBothFresh ==
    \A r, q \in Requests :
       SameEvent(r, q) => ~(InPurchaseBranch(r) /\ InPurchaseBranch(q))

\* C4: a correctly signed notification whose type has no case in its handler
\* is answered 200 and causes no line-item lookup, no payload and no
\* delivery attempt.
C4_UnknownTypeAcknowledged ==
    \A r \in Requests :
       (Verified(r) /\ Event(r).type \notin CasesOf(r)) =>
          /\ pc[r] \in {"received", "switch", "done"}
          /\ Answered(r) => response[r] = 200
          /\ NoSideEffects(r)

C4_Witness ==
    \E r \in Requests :
       /\ Verified(r)
       /\ notif[r].handler = "webhookAnalytics"
       /\ notif[r].eventId = "evt_test"
       /\ Answered(r)
       /\ response[r] = 200
       /\ consoleLog[r] = {"Unhandled event type"}

\* C5: when listLineItems fails for a paid checkout.session.completed, the
\* webhook answers 5xx.
C5_LookupFailureIsRetryable ==
    \A r \in Requests :
       (Answered(r) /\ "Failed to track purchase" \in consoleLog[r]) =>
          response[r] >= 500

\* C6: a paid checkout.session.completed that lacks its total amount or its
\* currency is reported as an error and no analytics payload is built from
\* a substituted default.
C6_MissingFieldReported ==
    \A r \in Requests :
       (/\ Answered(r) /\ Verified(r)
        /\ notif[r].handler = "webhookAnalytics"
        /\ Event(r).type = "checkout.session.completed"
        /\ Event(r).object.payment_status = "paid"
        /\ (Event(r).object.amount_total = Absent \/ Event(r).object.currency = Absent)) =>
          /\ consoleLog[r] # {}
          /\ payload[r] = Absent

\* C7: every verified notification of a paid checkout.session.completed (to
\* the analytics webhook) or of a charge.refunded (to either webhook) that was
\* answered has produced one outbound analytics event handed to delivery.
C7_PaymentOrRefundProducesEvent ==
    \A r \in Requests :
       (/\ Answered(r) /\ Verified(r)
        /\ \/ notif[r].eventId = "evt_refund"
           \/ notif[r].eventId = "evt_paid" /\ notif[r].handler = "webhookAnalytics") =>
          HandedToDelivery(r)

\* C8: after the sink answered an attempt with a non-rate-limit 4xx status,
\* sendEvent has returned false and no retry is scheduled or issued.
C8_ClientErrorNotRetried ==
    \A r \in Requests :
       lastOutcome[r] = "4xx" => (Answered(r) /\ sendResult[r] = "false")

\* C9 as stated: once 3 delivery attempts of an event have failed, no retry
\* is pending and no 4th attempt is made, on the server and in the browser.
C9_ThreeFailuresDeadLetter ==
    /\ \A r \in Requests :
          Len(errorLog[r]) >= 3 => (Answered(r) /\ attempts[r] <= 3)
    /\ \A id \in TrackedIds :
          ClientFailures(id) >= 3 => (~ClientPending(id) /\ ClientAttempts(id) <= 3)

\* C9 amended: an event is attempted at most maxRetries + 1 = 4 times (the
\* first attempt and 3 retries); once 4 attempts have failed it is
\* dead-lettered: sendEvent has returned false (server), no timer or queue
\* entry is left for it (browser), and no further attempt is issued.
C9_FourFailuresDeadLetter ==
    /\ \A r \in Requests :
          /\ attempts[r] <= MaxRetries + 1
          /\ Len(errorLog[r]) = MaxRetries + 1 =>
                (Answered(r) /\ sendResult[r] = "false")
    /\ \A id \in TrackedIds :
          /\ ClientAttempts(id) <= RetryAttempts + 1
          /\ ClientFailures(id) = RetryAttempts + 1 => ~ClientPending(id)

C9_Witness ==
    \E r \in Requests :
       /\ Len(errorLog[r]) = MaxRetries + 1
       /\ attempts[r] = MaxRetries + 1
       /\ sendResult[r] = "false"

Ids(seq) == [i \in 1..Len(seq) |-> seq[i].id]

\* the event has an entry in the offline queue
InQueue(q, id) == \E i \in 1..Len(q) : q[i].id = id

\* the step is a sendEvent call for event id with retryCount rc: a new event
\* tracked by the application, or a retry timer firing
SendEventStep(id, rc) ==
    \/ tracked' = tracked + 1 /\ id = tracked' /\ rc = 0
    \/ \E t \in timers : t \notin timers' /\ t.id = id /\ t.retryCount = rc

\* C11: the retry after the 1st, 2nd, 3rd failed attempt of an event is
\* scheduled 1000, 2000, 4000 ms after that failure: every backoff the server
\* has awaited and every pending browser retry timer has the delay that
\* belongs to the number of failures of its event.
C11_DelaysFollowFailures ==
    LET AfterFailure(k) == 1000 * (2 ^ (k - 1)) IN
      /\ \A r \in Requests :
            \A k \in 1..Len(delay[r]) : delay[r][k] = AfterFailure(k)
      /\ \A t \in timers : t.delay = AfterFailure(gtagFailures[t.id])

RECURSIVE Resendable(_)
Resendable(q) ==
    IF q = <<>>
      THEN <<>>
      ELSE IF Head(q).retryCount < RetryAttempts
             THEN <<Head(q)>> \o Resendable(Tail(q))
             ELSE Resendable(Tail(q))

C14_QueueBounded == Len(eventQueue) <= QueueMaxSize

\* the queue is full of the first queueMaxSize events and one more sendEvent
\* call has been made
C14_Witness ==
    /\ gtagAvailable
    /\ Len(eventQueue) = QueueMaxSize
    /\ \A id \in 1..QueueMaxSize : InQueue(eventQueue, id)
    /\ tracked = QueueMaxSize + 1
    /\ ~InQueue(eventQueue, tracked)

\* C15: a sendEvent call made offline while the queue holds queueMaxSize
\* events leaves the queue, its entries and their order unchanged, and the
\* new event is neither sent nor scheduled.
C15_FullQueueRejectsNew ==
    [][\A id \in TrackedIds, rc \in 0..RetryAttempts :
          (/\ ~isOnline /\ gtagAvailable
           /\ Len(eventQueue) = QueueMaxSize
           /\ SendEventStep(id, rc)) =>
             /\ eventQueue' = eventQueue
             /\ gtagAttempts' = gtagAttempts
             /\ \A t \in timers' : t.id # id]_vars

C15_Witness ==
    /\ ~isOnline
    /\ tracked = QueueMaxSize + 1
    /\ Ids(eventQueue) = [i \in 1..QueueMaxSize |-> i]
    /\ gtagAttempts[tracked] = 0
    /\ timers = {}

\* C16: no more than MAX_EVENTS_PER_SECOND events are handed to gtag at the
\* same instant: the calls made by one synchronous step (for example one
\* drain of the offline queue) stay within the per-second ceiling, the
\* excess being deferred.
C16_BatchWithinCeiling == Len(gtagBatch) <= MaxEventsPerSecond

\* C17: an event leaves the offline queue only by being handed to gtag: in
\* every step in which an event that was queued is no longer queued, gtag was
\* called for that event.
C17_LeavesQueueOnlyBySend ==
    [][\A id \in TrackedIds :
          (InQueue(eventQueue, id) /\ ~InQueue(eventQueue', id)) =>
             gtagAttempts'[id] = gtagAttempts[id] + 1]_vars

\* the sink took in the payload of request r this many times
ServerDeliveries(r) == sinkReceived[r]

\* gtag accepted event id this many times
ClientDeliveries(id) == gtagAttempts[id] - gtagFailures[id]

\* C18: no event is delivered to the analytics sink more than once: the sink
\* takes in the payload of a webhook request at most once, and gtag accepts
\* a tracked event at most once.
C18_DeliveredAtMostOnce ==
    /\ \A r \in Requests : ServerDeliveries(r) <= 1
    /\ \A id \in TrackedIds : ClientDeliveries(id) <= 1

\* C19: queueing an event and draining the queue leave its retry count
\* unchanged: an event queued with retryCount k is handed to gtag, or queued
\* again, with retryCount k by the step that takes it from the queue.
C19_DrainKeepsRetryCount ==
    [][\A i \in 1..Len(eventQueue) :
          LET e == eventQueue[i] IN
            /\ \A j \in 1..Len(eventQueue') :
                  eventQueue'[j].id = e.id => eventQueue'[j].retryCount = e.retryCount
            /\ gtagAttempts'[e.id] > gtagAttempts[e.id] =>
                  \A j \in 1..Len(gtagBatch') :
                     gtagBatch'[j].id = e.id => gtagBatch'[j].retryCount = e.retryCount]_vars

\* C20: an event waiting for its retry timer does not block other events:
\* while a retry timer is pending and the browser is online, a newly tracked
\* event is handed to gtag in the very step that tracks it, and on a
\* reconnection every queued event still below retryAttempts is handed to
\* gtag in the step that drains the queue; the pending timers stay pending.
C20_PendingRetryDoesNotBlock ==
    [][(timers # {} /\ gtagAvailable) =>
          /\ (isOnline /\ tracked' = tracked + 1) =>
                /\ gtagAttempts'[tracked'] = 1
                /\ timers \subseteq timers'
          /\ (~isOnline /\ isOnline') =>
                /\ \A i \in 1..Len(eventQueue) :
                      eventQueue[i].retryCount < RetryAttempts =>
                         gtagAttempts'[eventQueue[i].id] = gtagAttempts[eventQueue[i].id] + 1
                /\ timers \subseteq timers']_vars

\* event 1 waits for its first retry while event 2 has just been accepted
C20_Witness ==
    /\ runtime = "browser"
    /\ isOnline
    /\ \E t \in timers : t.id = 1 /\ t.retryCount = 1
    /\ gtagBatch = <<[id |-> 2, retryCount |-> 0, ok |-> TRUE]>>

\* the current attempt of the sendEvent call has not completed
AttemptPending == callPc \in {"fetch", "text"}

\* C21: an attempt of ServerAnalytics.sendEvent that has not completed within
\* the timeout is aborted and handled as a failed attempt: no attempt is still
\* pending once the timeout has elapsed since it began, and an abort is
\* followed by the catch block (a backoff or the return of false).
C21_AttemptBoundedByTimeout ==
    /\ AttemptPending => ~overdue
    /\ timeoutId = "fired" => callPc \in {"backoff", "returned"}

\* C22: getSessionId generates an identifier only when none is stored,
\* persists it in sessionStorage, and every later call within the same
\* storage lifetime returns that same identifier.
C22_SessionIdStable ==
    /\ \A a, b \in returnedIds : a.visit = b.visit => a.id = b.id
    /\ \A a \in returnedIds : a.visit = visit => sessionStorage = Some(a.id)

\* the id was asked for in the first visit, an event carried it, and it was
\* asked for again in the second visit
C22_Witness ==
    /\ visit = 2
    /\ \E a, b \in returnedIds : a.visit = 1 /\ b.visit = 2
    /\ \E ev \in outbound : ev.origin = "client" /\ ev.visit = 1
    /\ sessionStorage # Absent

\* C23: every outbound analytics event, client-originated or sent by the
\* webhook through trackServerPurchase, carries the session identifier of
\* the visit it belongs to.
C23_EveryEventCarriesSessionId ==
    \A ev \in outbound :
       /\ ev.session_id # Absent
       /\ \A a \in returnedIds : a.visit = ev.visit => ev.session_id = Some(a.id)

\* the body on the wire is not the body the sender signed
BodyAltered == wirePayload # Some(signed[1].body)

\* the header on the wire is not the header the sender made
HeaderAltered ==
    wireHeader # Some(CreateWebhookSignature(signed[1].body, signed[1].secret,
                                             signed[1].timestamp))

\* the delivery carries the body and the header exactly as the sender made them
Untampered == ~BodyAltered /\ ~HeaderAltered

\* the endpoint's clock is within the tolerance of the signed timestamp
WithinTolerance == clock - signed[1].timestamp <= Tolerance

\* C24: a notification signed with the endpoint's secret, header
\* t=<timestamp>,v1=HMAC-SHA256(secret, timestamp.payload), and delivered
\* within the tolerance is accepted; if the body, or the signature, differs
\* from what was signed the notification is rejected.
C24_SignedAcceptedTamperedRejected ==
    (signed # Absent /\ verdict # 0 /\ signed[1].secret = WebhookSecret) =>
       /\ (Untampered /\ WithinTolerance) => verdict = 200
       /\ (BodyAltered /\ ~HeaderAltered) => verdict = 400
       /\ (HeaderAltered /\ ~BodyAltered) => verdict = 400

\* an untampered notification was accepted at the edge of the tolerance
C24_Witness ==
    /\ signed # Absent
    /\ Untampered
    /\ signed[1].secret = WebhookSecret
    /\ clock = signed[1].timestamp + Tolerance
    /\ verdict = 200

\* C25: a notification whose signed timestamp is older than the tolerance is
\* rejected even when its HMAC matches exactly.
C25_ExpiredRejected ==
    (signed # Absent /\ verdict # 0 /\ clock - signed[1].timestamp > Tolerance)
       => verdict = 400

\* an untampered, correctly signed notification was rejected for its age
C25_Witness ==
    /\ signed # Absent
    /\ Untampered
    /\ signed[1].secret = WebhookSecret
    /\ clock = signed[1].timestamp + Tolerance + 1
    /\ verdict = 400

\* C26: the webhook with analytics answers 200 to every correctly signed
\* notification of the types the verification script simulates, also when the
\* line-item lookup or the purchase delivery of a checkout.session.completed
\* fails.
C26_SimulatedEventsAnswered200 ==
    \A r \in Requests :
       (/\ notif[r] # NoNotif
        /\ notif[r].handler = "webhookAnalytics"
        /\ notif[r].sig = "valid"
        /\ notif[r].eventId \in SimulatedEvents
        /\ response[r] # 0) => response[r] = 200

\* one paid checkout whose lookup was rejected and one whose delivery failed
\* on every attempt, both answered
C26_Witness ==
    \E r, q \in Requests :
       /\ notif[r] # NoNotif /\ notif[r].eventId = "evt_paid"
       /\ "Failed to track purchase" \in consoleLog[r]
       /\ response[r] = 200
       /\ notif[q] # NoNotif /\ notif[q].eventId = "evt_paid"
       /\ sendResult[q] = "false"
       /\ response[q] = 200

\* C27: a sendEvent call that has returned made at most maxRetries + 1
\* delivery attempts (exactly one when retries are disabled) and returned true
\* if and only if one of its attempts received a 2xx response.
C27_BoundedAttemptsTrueIffOk ==
    returned # "none" =>
       /\ fetchCount <= config.maxRetries + 1
       /\ (~config.enableRetries => fetchCount = 1)
       /\ (returned = "true" <=> okResponses > 0)

\* C29: while window.gtag is unavailable a sendEvent call has no effect,
\* online or offline: no gtag call is made, the offline queue is unchanged and
\* no retry timer is scheduled.
C29_NoEffectWithoutGtag ==
    [][\A id \in TrackedIds, rc \in 0..RetryAttempts :
          (~gtagAvailable /\ SendEventStep(id, rc)) =>
             /\ gtagBatch' = <<>>
             /\ gtagAttempts' = gtagAttempts
             /\ eventQueue' = eventQueue
             /\ timers' = timers
             /\ analyticsErrors' = analyticsErrors]_vars

\* every event the bound allows was tracked while offline without gtag, and
\* nothing was queued, sent or scheduled
C29_Witness ==
    /\ runtime = "browser"
    /\ ~gtagAvailable
    /\ ~isOnline
    /\ tracked = MaxTracked
    /\ eventQueue = <<>>
    /\ timers = {}
    /\ \A id \in TrackedIds : gtagAttempts[id] = 0

\* the request is a correctly signed, paid checkout.session.completed at the
\* webhook with analytics
PaidCheckout(r) ==
    /\ notif[r] # NoNotif
    /\ notif[r].handler = "webhookAnalytics"
    /\ notif[r].sig = "valid"
    /\ notif[r].eventId = "evt_paid"

WellFormedCart(items) ==
    /\ \A i \in 1..Len(items) : items[i].quantity >= 1
    /\ \A i, j \in 1..Len(items) :
          (items[i].printId = items[j].printId
             /\ items[i].variantId = items[j].variantId) => i = j

\* C30: after any sequence of addToCart and updateQuantity operations from an
\* empty cart, every entry of the stored cart and of the cart page has
\* quantity >= 1 and there is at most one entry per (printId, variantId).
C30_CartWellFormed ==
    /\ WellFormedCart(StoredCart)
    /\ WellFormedCart(cart)

\* the cart page has removed the last entry of a cart that addToCart had
\* filled, and has written the empty cart back
C30_Witness ==
    /\ mounted
    /\ cart = <<>>
    /\ localStorage = Some(<<>>)

====
